---------------------------- MODULE Spec2Model ----------------------------
(***************************************************************************)
(* Model of the DFOS monitoring dashboard (hellopy01/dfosmoni-app).        *)
(*                                                                         *)
(* The ingestion engine, process_bts_file, is modelled on containers whose *)
(* datasets are numeric arrays with a shape and row-major data; the        *)
(* presentation layer derives charts and PDF pages from a success result   *)
(* with an additive offset and an index-range mask.                        *)
(***************************************************************************)
EXTENDS Integers, Sequences, FiniteSets, TLC

(***************************************************************************)
(* Bounds of the model.                                                    *)
(***************************************************************************)
\* Largest first dimension (number of frames) of a dataset.
MaxFrames == 2
\* Largest number of distance points of a dataset.
MaxPoints == 3

\* Y-offsets a user types into an offset input.
OffsetChoices == {-1, 0, 5}

(***************************************************************************)
(* Arrays as the code sees them: a shape and the elements in row-major     *)
(* order.  A 0-d value (one element of a 1-D array) has shape <<>>.        *)
(***************************************************************************)
RECURSIVE Product(_)
Product(s) == IF s = <<>> THEN 1 ELSE Head(s) * Product(Tail(s))

\* The array of the given shape holding base, base+1, ... in row-major order.
MakeArray(shape, base) ==
    [shape |-> shape, data |-> [k \in 1..Product(shape) |-> base + k - 1]]

ndim(a) == Len(a.shape)

\* A slip of a[0]: a[-1], the last entry along axis 0.
Index0LastFrame(a) ==
    LET rest == Tail(a.shape)
        n    == Product(rest)
    IN  [shape |-> rest, data |-> SubSeq(a.data, (a.shape[1] - 1) * n + 1, a.shape[1] * n)]

\* a[0] of the code: the first entry along axis 0.
CanIndex0(a) == ndim(a) >= 1 /\ a.shape[1] >= 1

Index0(a) ==
    LET rest == Tail(a.shape)
    IN  [shape |-> rest, data |-> SubSeq(a.data, 1, Product(rest))]

\* np.arange(n)
arange(n) == [shape |-> <<n>>, data |-> [k \in 1..n |-> k - 1]]

\* a + o, elementwise
AddOffset(a, o) == [shape |-> a.shape, data |-> [k \in 1..Len(a.data) |-> a.data[k] + o]]

(***************************************************************************)
(* Containers.  A file is either not an HDF5 container at all, or a        *)
(* container in which each of the five paths under base_path is absent or  *)
(* holds an array.                                                         *)
(***************************************************************************)
TimeName == "BrillouinDataTime"
MarkerNames == <<"StrainData", "TemperatureData", "FrequencyData", "AmplitudeData">>
DatasetNames == {TimeName} \cup {MarkerNames[i] : i \in 1..4}

Absent == [present |-> FALSE, shape |-> <<>>, data |-> <<>>]
Dataset(a) == [present |-> TRUE, shape |-> a.shape, data |-> a.data]

\* The first value stored in each synthetic dataset.
Base(name) ==
    CASE name = "StrainData"      -> 0
      [] name = "TemperatureData" -> 10
      [] name = "FrequencyData"   -> 20
      [] name = "AmplitudeData"   -> 30
      [] OTHER                    -> 100

\* Shapes a marker dataset may have: 1-D or 2-D, possibly with no frames
\* or no distance points.
Shapes ==
    {<<n>> : n \in 0..MaxPoints} \cup
    {<<f, n>> : f \in 0..MaxFrames, n \in 0..MaxPoints}

\* First-named arrays (StrainData, FrequencyData) share one shape and
\* second-named arrays (TemperatureData, AmplitudeData) another: only one
\* pair is ever read, so this loses no behaviour of process_bts_file.
ContainerOf(hasTime, pres, shapeA, shapeB) ==
    [kind   |-> "hdf5",
     prefix |-> TRUE,
     ds     |-> [n \in DatasetNames |->
                   IF n = TimeName
                   THEN IF hasTime THEN Dataset(MakeArray(<<MaxFrames>>, Base(n)))
                        ELSE Absent
                   ELSE IF n \notin pres THEN Absent
                   ELSE IF n \in {"StrainData", "FrequencyData"}
                        THEN Dataset(MakeArray(shapeA, Base(n)))
                        ELSE Dataset(MakeArray(shapeB, Base(n)))]]

\* A file that is not an HDF5 container.
CorruptFile == [kind |-> "corrupt", prefix |-> FALSE, ds |-> [n \in DatasetNames |-> Absent]]
\* An HDF5 container without the group Acquisition/Custom/Brillouin[0].
NoPrefixFile == [kind |-> "hdf5", prefix |-> FALSE, ds |-> [n \in DatasetNames |-> Absent]]

Files ==
    {CorruptFile, NoPrefixFile} \cup
    {ContainerOf(t, p, a, b) :
        t \in BOOLEAN, p \in SUBSET (DatasetNames \ {TimeName}),
        a \in Shapes, b \in Shapes}

\* (base_path + name) in f
Contains(f, name) == f.prefix /\ f.ds[name].present
\* f[base_path + name][:]
ReadAll(f, name) == [shape |-> f.ds[name].shape, data |-> f.ds[name].data]

(***************************************************************************)
(* process_bts_file                                                        *)
(***************************************************************************)
Raise(exc, msg) == [raised |-> TRUE, exc |-> exc, msg |-> msg]
Return(v) == [raised |-> FALSE, value |-> v]

\* The message of the final else branch.
UnknownFormatError == <<"Unknown file format">>

\* A slip of distance_points: the last dimension of the second-named array.
DistancePointsOfSecond(first, second) == second.shape[Len(second.shape)]

\* distance_points = strain.shape[1] (freq.shape[1]): the second dimension of
\* the first-named array of the pair; the second array's shape is not read.
DistancePointsOf(first, second) == first.shape[2]

TempStrainBranch(f, time) ==
    LET strain == ReadAll(f, "StrainData")
        temp   == ReadAll(f, "TemperatureData")
    IN  IF ndim(strain) < 2
        THEN Raise("IndexError", <<"tuple index out of range">>)
        ELSE LET distance_points == DistancePointsOf(strain, temp)
                 distance        == arange(distance_points)
             IN  IF ~CanIndex0(strain) \/ ~CanIndex0(temp)
                 THEN Raise("IndexError", <<"index 0 is out of bounds for axis 0 with size 0">>)
                 ELSE Return(
                        [success         |-> TRUE,
                         file_type       |-> "TempStrain",
                         time            |-> time,
                         strain_full     |-> strain,
                         temp_full       |-> temp,
                         strain_first    |-> Index0(strain),
                         temp_first      |-> Index0(temp),
                         distance        |-> distance,
                         distance_points |-> distance_points,
                         metadata        |-> [time_shape   |-> time.shape,
                                              strain_shape |-> strain.shape,
                                              temp_shape   |-> temp.shape]])

BrillFrequencyBranch(f, time) ==
    LET freq == ReadAll(f, "FrequencyData")
        amp  == ReadAll(f, "AmplitudeData")
    IN  IF ndim(freq) < 2
        THEN Raise("IndexError", <<"tuple index out of range">>)
        ELSE LET distance_points == DistancePointsOf(freq, amp)
                 distance        == arange(distance_points)
             IN  IF ~CanIndex0(freq) \/ ~CanIndex0(amp)
                 THEN Raise("IndexError", <<"index 0 is out of bounds for axis 0 with size 0">>)
                 ELSE Return(
                        [success         |-> TRUE,
                         file_type       |-> "BrillFrequency",
                         time            |-> time,
                         freq_full       |-> freq,
                         amp_full        |-> amp,
                         freq_first      |-> Index0(freq),
                         amp_first       |-> Index0(amp),
                         distance        |-> distance,
                         distance_points |-> distance_points,
                         metadata        |-> [time_shape |-> time.shape,
                                              freq_shape |-> freq.shape,
                                              amp_shape  |-> amp.shape]])

\* A slip of the else branch: a failure record that also carries a file_type.
UnknownFormatBranchWithType(has_strain, has_temp, has_freq, has_amp) ==
    Return([success |-> FALSE, file_type |-> "Unknown", error |-> UnknownFormatError])

\* The else branch: neither pair is complete.
UnknownFormatBranch(has_strain, has_temp, has_freq, has_amp) ==
    Return([success |-> FALSE, error |-> UnknownFormatError])

\* A slip of the chain: the BrillFrequency condition tested first.
DetectVariantBrillFirst(has_strain, has_temp, has_freq, has_amp) ==
    IF has_freq /\ has_amp THEN "BrillFrequency"
    ELSE IF has_strain /\ has_temp THEN "TempStrain"
    ELSE "Unknown"

\* A slip of the chain: or in place of and.
DetectVariantEitherPresent(has_strain, has_temp, has_freq, has_amp) ==
    IF has_strain \/ has_temp THEN "TempStrain"
    ELSE IF has_freq \/ has_amp THEN "BrillFrequency"
    ELSE "Unknown"

\* Which branch the if / elif / else chain takes.
DetectVariant(has_strain, has_temp, has_freq, has_amp) ==
    IF has_strain /\ has_temp THEN "TempStrain"
    ELSE IF has_freq /\ has_amp THEN "BrillFrequency"
    ELSE "Unknown"

\* The body of the try block: what it returns or the exception it raises.
TryBody(f) ==
    IF f.kind # "hdf5"
    THEN Raise("OSError", <<"Unable to open file", "file signature not found">>)
    ELSE IF ~Contains(f, TimeName)
    THEN Raise("KeyError", <<"Unable to open object", TimeName>>)
    ELSE LET time       == ReadAll(f, TimeName)
             has_strain == Contains(f, "StrainData")
             has_temp   == Contains(f, "TemperatureData")
             has_freq   == Contains(f, "FrequencyData")
             has_amp    == Contains(f, "AmplitudeData")
             variant    == DetectVariant(has_strain, has_temp, has_freq, has_amp)
         IN  CASE variant = "TempStrain"     -> TempStrainBranch(f, time)
               [] variant = "BrillFrequency" -> BrillFrequencyBranch(f, time)
               [] OTHER -> UnknownFormatBranch(has_strain, has_temp, has_freq, has_amp)

\* A narrower handler: except (OSError, IndexError).
CaughtNotKeyError(exc) == exc \in {"OSError", "IndexError"}

\* A narrower handler: except (OSError, KeyError).
CaughtNotIndexError(exc) == exc \in {"OSError", "KeyError"}

\* except Exception as e: every exception of the body is an Exception.
Caught(exc) == TRUE

\* The call as its caller sees it: a returned record or a propagated exception.
process_bts_file(file_obj) ==
    LET r == TryBody(file_obj)
    IN  IF ~r.raised THEN [kind |-> "returned", value |-> r.value]
        ELSE IF Caught(r.exc)
             THEN [kind |-> "returned", value |-> [success |-> FALSE, error |-> r.msg]]
             ELSE [kind |-> "raised", exc |-> r.exc]

(***************************************************************************)
(* Presentation layer: offset, range mask, charts and PDF pages            *)
(***************************************************************************)
\* The two channels of a result, in the order the view and the report show them.
Channels(result) ==
    IF result.file_type = "TempStrain" THEN <<"temp", "strain">> ELSE <<"freq", "amp">>

\* result[ch + '_first']
FirstFrame(result, ch) ==
    CASE ch = "temp"   -> result.temp_first
      [] ch = "strain" -> result.strain_first
      [] ch = "freq"   -> result.freq_first
      [] OTHER         -> result.amp_first

\* A slip of the mask: a strict lower comparison.
RangeMaskExclusive(distance, lo, hi) ==
    [k \in 1..Len(distance.data) |-> distance.data[k] > lo /\ distance.data[k] <= hi]

\* (distance >= lo) & (distance <= hi): one boolean per distance index.
RangeMask(distance, lo, hi) ==
    [k \in 1..Len(distance.data) |-> distance.data[k] >= lo /\ distance.data[k] <= hi]

\* a[mask] needs a 1-D array with one element per mask entry.
CanMask(a, mask) == a.shape = <<Len(mask)>>

\* The elements of data whose mask entry is true, in order.
RECURSIVE Compress(_, _, _)
Compress(data, mask, k) ==
    IF k > Len(mask) THEN <<>>
    ELSE (IF mask[k] THEN <<data[k]>> ELSE <<>>) \o Compress(data, mask, k + 1)

\* a[mask]
BoolIndex(a, mask) ==
    LET picked == Compress(a.data, mask, 1)
    IN  [shape |-> <<Len(picked)>>, data |-> picked]

\* One channel's chart: data = first + off; x = distance[mask]; y = data[mask].
ChartOf(result, ch, c) ==
    LET data == AddOffset(FirstFrame(result, ch), c.off)
        mask == RangeMask(result.distance, c.lo, c.hi)
    IN  IF ~CanMask(data, mask)
        THEN [ok |-> FALSE, channel |-> ch, error |-> "IndexError"]
        ELSE [ok |-> TRUE, channel |-> ch, off |-> c.off, lo |-> c.lo, hi |-> c.hi,
              x |-> BoolIndex(result.distance, mask).data,
              y |-> BoolIndex(data, mask).data]

\* The values the three number inputs of a channel start with.
DefaultControl(result) == [off |-> 0, lo |-> 0, hi |-> result.distance_points - 1]

\* The X-Axis Min input: min_value=0, max_value=distance_points-1.
XMinAccepts(result, lo) == 0 <= lo /\ lo <= result.distance_points - 1

\* The X-Axis Max input: min_value=x_min+1, max_value=distance_points-1.
XMaxAccepts(result, lo, hi) == lo + 1 <= hi /\ hi <= result.distance_points - 1

\* The X-Min input takes 0..distance_points-1 and the X-Max input
\* x_min+1..distance_points-1; a default outside an input's bounds makes
\* the input raise while the page is drawn.
InputsAccept(result, c) ==
    /\ 0 <= c.lo /\ c.lo <= result.distance_points - 1
    /\ c.lo + 1 <= c.hi /\ c.hi <= result.distance_points - 1

\* The charts section of one run of show_single_file_analysis for the
\* processed file: the channels in order, stopping at the first exception.
RenderCharts(result, ctl) ==
    LET chs == Channels(result)
        one(i) == IF ~InputsAccept(result, ctl[i])
                  THEN [ok |-> FALSE, channel |-> chs[i], error |-> "StreamlitAPIException"]
                  ELSE ChartOf(result, chs[i], ctl[i])
    IN  IF one(1).ok THEN <<one(1), one(2)>> ELSE <<one(1)>>

\* min and max of a non-empty array
RECURSIVE SeqMin(_)
SeqMin(s) == IF Len(s) = 1 THEN s[1]
             ELSE LET m == SeqMin(Tail(s)) IN IF s[1] < m THEN s[1] ELSE m
RECURSIVE SeqMax(_)
SeqMax(s) == IF Len(s) = 1 THEN s[1]
             ELSE LET m == SeqMax(Tail(s)) IN IF s[1] > m THEN s[1] ELSE m

\* sum of the elements, and of their squares
RECURSIVE SeqSum(_)
SeqSum(s) == IF s = <<>> THEN 0 ELSE s[1] + SeqSum(Tail(s))
RECURSIVE SeqSumSq(_)
SeqSumSq(s) == IF s = <<>> THEN 0 ELSE s[1] * s[1] + SeqSumSq(Tail(s))

\* y.mean() as the exact fraction sum / count
Mean(y) == [num |-> SeqSum(y), den |-> Len(y)]

\* y.std() is the square root of the population variance; the model keeps
\* the variance as the exact fraction (n * sum of squares - sum^2) / n^2.
Variance(y) == [num |-> Len(y) * SeqSumSq(y) - SeqSum(y) * SeqSum(y),
                den |-> Len(y) * Len(y)]

\* controls=None becomes the empty dict: a dict holding none of the keys.
NoControls == [none |-> TRUE]

\* controls.get(key, default)
Get(ctl, key, default) == IF key \in DOMAIN ctl THEN ctl[key] ELSE default

\* The offsets and the range _generate_single_report takes from its controls.
ReportControls(result, ctl) ==
    [off   |-> [ch \in {"temp", "strain", "freq", "amp"} |-> Get(ctl, ch \o "_offset", 0)],
     x_min |-> Get(ctl, "x_min", 0),
     x_max |-> Get(ctl, "x_max", result.distance_points - 1)]

\* One plot page of the report.
PlotPage(result, ch, rc) ==
    LET mask == RangeMask(result.distance, rc.x_min, rc.x_max)
        data == AddOffset(FirstFrame(result, ch), rc.off[ch])
    IN  IF ~CanMask(data, mask)
        THEN [ok |-> FALSE, channel |-> ch, error |-> "IndexError"]
        ELSE LET y == BoolIndex(data, mask).data
             IN  IF y = <<>>
                 THEN [ok |-> FALSE, channel |-> ch, error |-> "ValueError"]
                 ELSE [ok |-> TRUE, channel |-> ch, off |-> rc.off[ch],
                       lo |-> rc.x_min, hi |-> rc.x_max,
                       x |-> BoolIndex(result.distance, mask).data,
                       y |-> y,
                       min |-> SeqMin(y), max |-> SeqMax(y),
                       mean |-> Mean(y), var |-> Variance(y)]

\* The cover page prints min and max of first + offset for both channels.
CoverPage(result, rc) ==
    LET chs == Channels(result)
        d(i) == AddOffset(FirstFrame(result, chs[i]), rc.off[chs[i]]).data
    IN  IF d(1) = <<>> \/ d(2) = <<>>
        THEN [ok |-> FALSE, error |-> "ValueError"]
        ELSE [ok |-> TRUE,
              ranges |-> [i \in 1..2 |-> [channel |-> chs[i],
                                          min |-> SeqMin(d(i)), max |-> SeqMax(d(i))]],
              x_min |-> rc.x_min, x_max |-> rc.x_max,
              showing |-> rc.x_max - rc.x_min + 1]

\* generate_pdf_report(result, filename, 'single', controls): the report, or
\* the exception that leaves the call.
generate_pdf_report(result, ctl) ==
    LET rc    == ReportControls(result, ctl)
        chs   == Channels(result)
        cover == CoverPage(result, rc)
        p1    == PlotPage(result, chs[1], rc)
        p2    == PlotPage(result, chs[2], rc)
    IN  IF ~cover.ok THEN [ok |-> FALSE, error |-> cover.error]
        ELSE IF ~p1.ok THEN [ok |-> FALSE, error |-> p1.error]
        ELSE IF ~p2.ok THEN [ok |-> FALSE, error |-> p2.error]
        ELSE [ok |-> TRUE, cover |-> cover, pages |-> <<p1, p2>>]

\* The header of the CSV of either variant.
CsvColumns(result) ==
    IF result.file_type = "TempStrain"
    THEN <<"Distance_Index", "Temperature_C", "Strain_ue">>
    ELSE <<"Distance_Index", "Frequency_GHz", "Amplitude">>

\* export_to_csv / export_to_csv_brillouin: a data frame of the three values
\* it is given, written without the frame's index. A scalar column is
\* repeated on every row; 1-D columns of different lengths make the frame
\* raise, and so does a column of more than one dimension.
export_to_csv(distance, a, b) ==
    LET n == Len(distance.data)
        bad(v) == ndim(v) > 1 \/ (ndim(v) = 1 /\ v.shape[1] # n)
        col(v) == IF ndim(v) = 0 THEN [k \in 1..n |-> v.data[1]] ELSE v.data
    IN  IF bad(a) \/ bad(b) THEN [ok |-> FALSE, error |-> "ValueError"]
        ELSE [ok |-> TRUE,
              rows |-> [k \in 1..n |-> <<distance.data[k], col(a)[k], col(b)[k]>>]]

\* The csv_data of the export options of a processed file.
CsvData(result) ==
    LET chs == Channels(result)
        out == export_to_csv(result.distance, FirstFrame(result, chs[1]),
                             FirstFrame(result, chs[2]))
    IN  IF out.ok THEN [ok |-> TRUE, columns |-> CsvColumns(result), rows |-> out.rows]
        ELSE out

\* One run of the part of show_single_file_analysis that shows a processed
\* file: the export options first, then the charts. An exception of the CSV
\* export ends the run before anything below it is drawn.
RenderFile(result, ctl) ==
    LET out == CsvData(result)
    IN  [csv |-> out, charts |-> IF out.ok THEN RenderCharts(result, ctl) ELSE <<>>]

(***************************************************************************)
(* State                                                                   *)
(***************************************************************************)
VARIABLES
    \* one processed file and its view
    file,       \* the uploaded file in the upload slot
    outcome,    \* what the last process_bts_file call gave its caller
    stored,     \* the result kept for the file in processed_files, if any
    controls,   \* the values of the two channels' number inputs
    charts,     \* the charts drawn by the last run of the view
    csv,        \* the data behind the Download CSV button of the last run
    pdf,        \* the report produced by the last Generate PDF, if any
    widgets,    \* st.session_state of the file view: keyed inputs and reset counters
    \* the session of several files
    slots,              \* the upload slots, each empty or holding a file name
    processed_files,    \* st.session_state.processed_files: name -> result
    show_compare_all,   \* st.session_state.show_compare_all
    compare,            \* the compare_* values of the combined view's inputs
    overlay,            \* the traces drawn by the last run of the combined view
    batch,              \* the names the last Process All called the extraction on
    shown,              \* the messages on the page once the interaction is over
    last,               \* the last interaction of the session
    \* authentication
    authenticated, user_info, login_time, login_attempts, locked_until,
    now,        \* the clock, in minutes
    login_page, \* the login page as last drawn: the answer of authenticate on it
    log,        \* the last authentication events of the session, oldest first
    lock_set,   \* history: the locked_until of the last lock check_lock_account set
    page        \* the page the last run of main drew

viewVars == <<file, outcome, stored, controls, charts, csv, pdf, widgets>>
sessVars == <<slots, processed_files, show_compare_all, compare, overlay, batch,
              shown, last>>
authVars == <<authenticated, user_info, login_time, login_attempts, locked_until,
              now, login_page, log, lock_set, page>>
vars == <<viewVars, sessVars, authVars>>

NoCall == [kind |-> "none"]
NoResult == [success |-> FALSE]
NoPdf == [ok |-> FALSE, error |-> "none"]
NoCsv == [ok |-> FALSE, error |-> "none"]
None == [none |-> TRUE]
Some(v) == [none |-> FALSE, value |-> v]
NoAnswer == [reset_button |-> FALSE, ok |-> FALSE, msg |-> "none"]
NoInteraction == [op |-> "none"]
NoOverlay == [figures |-> <<>>, inputs |-> {}, back |-> FALSE]

\* The user of CREDENTIALS once authenticate has accepted the login.
EngineerInfo == [username |-> "engineer", name |-> "Field Engineer", role |-> "engineer"]

\* No file uploaded to the session yet, and the combined view closed.
SessInit ==
    /\ slots = <<None>>
    /\ processed_files = <<>>
    /\ show_compare_all = FALSE
    /\ compare = <<>>
    /\ overlay = NoOverlay
    /\ batch = <<>>
    /\ shown = <<>>
    /\ last = NoInteraction

\* A user who has just logged in.
LoggedIn ==
    /\ authenticated = TRUE
    /\ user_info = EngineerInfo
    /\ login_time = Some(0)
    /\ login_attempts = 0
    /\ locked_until = None
    /\ now = 0
    /\ login_page = NoAnswer
    /\ log = <<>>
    /\ lock_set = None
    /\ page = "dashboard"

ViewIdle ==
    /\ outcome = NoCall
    /\ stored = NoResult
    /\ controls = <<>>
    /\ charts = <<>>
    /\ csv = NoCsv
    /\ pdf = NoPdf
    /\ widgets = <<>>

Init ==
    /\ file \in Files
    /\ ViewIdle
    /\ SessInit
    /\ LoggedIn

\* The Process button: one call of process_bts_file on the uploaded file; a
\* success is stored and the view is drawn again with the inputs' values.
Process ==
    /\ outcome' = process_bts_file(file)
    /\ IF outcome'.kind = "returned" /\ outcome'.value.success
       THEN LET result == outcome'.value
                ctl    == IF stored.success THEN controls
                          ELSE <<DefaultControl(result), DefaultControl(result)>>
                run    == RenderFile(result, ctl)
            IN  /\ stored' = result
                /\ controls' = ctl
                /\ csv' = run.csv
                /\ charts' = run.charts
                /\ pdf' = NoPdf
       ELSE UNCHANGED <<stored, controls, charts, csv, pdf>>
    /\ UNCHANGED <<file, widgets, sessVars, authVars>>

\* The user edits one number input of a channel whose section the last run
\* has reached; the view runs again with the new values.
EditControl(i, c) ==
    /\ stored.success
    /\ i <= Len(charts)
    /\ controls' = [controls EXCEPT ![i] = c]
    /\ csv' = RenderFile(stored, controls').csv
    /\ charts' = RenderFile(stored, controls').charts
    /\ pdf' = NoPdf
    /\ UNCHANGED <<file, outcome, stored, widgets, sessVars, authVars>>

\* Y-Axis Offset, the first input of the channel: any number.
SetOffset(i, off) ==
    /\ i <= Len(controls)
    /\ EditControl(i, [controls[i] EXCEPT !.off = off])

\* What the X-Max input holds in the run after X-Min was moved to lo, which
\* moves its min_value: the value it held, or its value argument when the
\* input is built anew, or its new min_value when a value below it is
\* brought up to it; which one is Streamlit's choice.
XMaxAfter(result, c, lo) ==
    {c.hi, result.distance_points - 1} \cup (IF c.hi < lo + 1 THEN {lo + 1} ELSE {})

\* X-Axis Min: a value the input accepts, whatever X-Max holds.
SetXMin(i, lo) ==
    /\ i <= Len(controls)
    /\ XMinAccepts(stored, controls[i].lo) /\ XMinAccepts(stored, lo)
    /\ \E hi \in XMaxAfter(stored, controls[i], lo) :
          EditControl(i, [controls[i] EXCEPT !.lo = lo, !.hi = hi])

\* X-Axis Max: drawn when its own bounds hold; a value it accepts.
SetXMax(i, hi) ==
    /\ i <= Len(controls)
    /\ InputsAccept(stored, controls[i]) /\ XMaxAccepts(stored, controls[i].lo, hi)
    /\ EditControl(i, [controls[i] EXCEPT !.hi = hi])

\* The Generate PDF button of the export options, drawn after the CSV button:
\* the view calls generate_pdf_report(result, filename, 'single').
GeneratePDF ==
    /\ stored.success /\ csv.ok
    /\ pdf' = generate_pdf_report(stored, NoControls)
    /\ UNCHANGED <<file, outcome, stored, controls, charts, csv, widgets, sessVars, authVars>>

\* Extraction alone: any file, processed.
Next == Process

Spec == Init /\ [][Next]_vars

\* The shapes of the two arrays of a viewed file: a well-formed first array,
\* and a second array of the same shape, or one point shorter or longer, or
\* 1-D.
ViewShapes ==
    {sh \in {<<f, n>> : f \in 1..MaxFrames, n \in 0..MaxPoints} \X Shapes :
        sh[2] \in {sh[1], <<sh[1][1], sh[1][2] - 1>>, <<sh[1][1], sh[1][2] + 1>>,
                   <<sh[1][2]>>}}

\* Files of either variant with exactly its pair of datasets.
ViewFiles ==
    {ContainerOf(TRUE, p, sh[1], sh[2]) :
        p \in {{"StrainData", "TemperatureData"}, {"FrequencyData", "AmplitudeData"}},
        sh \in ViewShapes}

ViewInit ==
    /\ file \in ViewFiles
    /\ ViewIdle
    /\ SessInit
    /\ LoggedIn

\* The session of one processed file: its controls and its exports.
ViewNext ==
    \/ Process
    \/ \E i \in 1..2, off \in OffsetChoices : SetOffset(i, off)
    \/ \E i \in 1..2, lo \in 0..MaxPoints : SetXMin(i, lo)
    \/ \E i \in 1..2, hi \in 0..MaxPoints : SetXMax(i, hi)
    \/ GeneratePDF

ViewSpec == ViewInit /\ [][ViewNext]_vars

\* The controls a caller of generate_pdf_report may hand over: none, every
\* key, or the lower end of the range alone.
ReportControlChoices ==
    {NoControls}
    \cup {[temp_offset |-> o[1], strain_offset |-> o[2],
           freq_offset |-> o[1], amp_offset |-> o[2],
           x_min |-> lo, x_max |-> hi] :
              o \in (OffsetChoices \X {0}) \cup ({0} \X OffsetChoices),
              lo \in 0..MaxPoints, hi \in 0..MaxPoints}
    \cup {[x_min |-> lo] : lo \in 0..MaxPoints}

\* A call of generate_pdf_report(result, filename, 'single', controls) on a
\* processed file.
GenerateReport(ctl) ==
    /\ stored.success
    /\ pdf' = generate_pdf_report(stored, ctl)
    /\ UNCHANGED <<file, outcome, stored, controls, charts, csv, widgets, sessVars, authVars>>

\* The report generator under every controls dict.
ReportNext ==
    \/ Process
    \/ \E ctl \in ReportControlChoices : GenerateReport(ctl)

ReportSpec == ViewInit /\ [][ReportNext]_vars

\* The container of the end-to-end scenario: StrainData [2,10] with row 0 =
\* 0..9, TemperatureData [2,10] with row 0 = 10..19, BrillouinDataTime of
\* length 2, and neither FrequencyData nor AmplitudeData.
ScenarioFile ==
    [kind   |-> "hdf5",
     prefix |-> TRUE,
     ds     |-> [n \in DatasetNames |->
                   CASE n = TimeName          -> Dataset(MakeArray(<<2>>, Base(n)))
                     [] n = "StrainData"      -> Dataset(MakeArray(<<2, 10>>, 0))
                     [] n = "TemperatureData" -> Dataset(MakeArray(<<2, 10>>, 10))
                     [] OTHER                 -> Absent]]

ScenarioInit ==
    /\ file = ScenarioFile
    /\ ViewIdle
    /\ SessInit
    /\ LoggedIn

\* The scenario's file in the view: processed, its inputs edited, exported.
ScenarioNext ==
    \/ Process
    \/ \E i \in 1..2, off \in OffsetChoices : SetOffset(i, off)
    \/ \E i \in 1..2, lo \in {0, 2} : SetXMin(i, lo)
    \/ \E i \in 1..2, hi \in {6, 9} : SetXMax(i, hi)
    \/ GeneratePDF

ScenarioSpec == ScenarioInit /\ [][ScenarioNext]_vars

(***************************************************************************)
(* The session of several files: the combined view                         *)
(***************************************************************************)
\* The files a user of the session has at hand, by name: two TempStrain
\* files of different lengths, a BrillFrequency file and a file that is not
\* an HDF5 container.
FileNames == {"a.h5", "b.h5", "c.h5", "d.h5"}
Catalogue(name) ==
    CASE name = "a.h5" -> ContainerOf(TRUE, {"StrainData", "TemperatureData"},
                                      <<MaxFrames, MaxPoints>>, <<MaxFrames, MaxPoints>>)
      [] name = "b.h5" -> ContainerOf(TRUE, {"StrainData", "TemperatureData"},
                                      <<MaxFrames, MaxPoints - 1>>, <<MaxFrames, MaxPoints - 1>>)
      [] name = "c.h5" -> ContainerOf(TRUE, {"FrequencyData", "AmplitudeData"},
                                      <<MaxFrames, MaxPoints>>, <<MaxFrames, MaxPoints>>)
      [] OTHER         -> CorruptFile

\* The names of the processed files of one variant.
OfType(pf, type) == {n \in DOMAIN pf : pf[n].file_type = type}

\* max([r['distance_points'] for _, r in files])
RECURSIVE MaxPointsOf(_, _)
MaxPointsOf(pf, names) ==
    LET n    == CHOOSE m \in names : TRUE
        rest == names \ {n}
    IN  IF rest = {} THEN pf[n].distance_points
        ELSE IF pf[n].distance_points > MaxPointsOf(pf, rest)
             THEN pf[n].distance_points ELSE MaxPointsOf(pf, rest)

\* if 'compare_...' not in st.session_state: the keys a group of the combined
\* view sets on its first run; keys already set keep their values.
CompareKeys(pf, cmp) ==
    LET ts == OfType(pf, "TempStrain")
        bf == OfType(pf, "BrillFrequency")
    IN  cmp
        @@ (IF ts = {} THEN <<>>
            ELSE [compare_temp_offset |-> 0, compare_strain_offset |-> 0,
                  compare_x_min |-> 0, compare_x_max |-> MaxPointsOf(pf, ts) - 1])
        @@ (IF bf = {} THEN <<>>
            ELSE [compare_freq_offset |-> 0, compare_amp_offset |-> 0,
                  compare_freq_x_min |-> 0, compare_freq_x_max |-> MaxPointsOf(pf, bf) - 1])

\* The session keys behind a channel's offset input and a group's range inputs.
OffsetKey(ch) == "compare_" \o ch \o "_offset"
XMinKey(type) == IF type = "TempStrain" THEN "compare_x_min" ELSE "compare_freq_x_min"
XMaxKey(type) == IF type = "TempStrain" THEN "compare_x_max" ELSE "compare_freq_x_max"
ChannelsOf(type) == IF type = "TempStrain" THEN <<"temp", "strain">> ELSE <<"freq", "amp">>

\* A slip of the combined chart: the trace is the first frame as stored.
CompareTraceRaw(result, ch, off, lo, hi) ==
    ChartOf(result, ch, [off |-> 0, lo |-> lo, hi |-> hi])

\* One file's trace of a combined chart: data = first + offset with the one
\* offset of the chart; x = distance[mask], y = data[mask].
CompareTrace(result, ch, off, lo, hi) ==
    ChartOf(result, ch, [off |-> off, lo |-> lo, hi |-> hi])

\* One combined chart: a trace per file of the group, or the exception of
\* the first trace that cannot be built.
CompareFigure(pf, names, ch, off, lo, hi) ==
    LET traces == [n \in names |-> CompareTrace(pf[n], ch, off, lo, hi)]
    IN  IF \A n \in names : traces[n].ok
        THEN [ok |-> TRUE, channel |-> ch, off |-> off, lo |-> lo, hi |-> hi,
              traces |-> [n \in names |-> [x |-> traces[n].x, y |-> traces[n].y]]]
        ELSE [ok |-> FALSE, channel |-> ch, error |-> "IndexError"]

\* One group of the combined view, in the order of the code: the offset input
\* of the first channel, the X-Min and X-Max inputs, the first chart, the
\* offset input of the second channel, the second chart. A number input whose
\* value lies outside its min_value..max_value raises and ends the run.
RenderGroup(pf, type, cmp) ==
    LET names == OfType(pf, type)
        chs   == ChannelsOf(type)
        top   == MaxPointsOf(pf, names) - 1
        lo    == cmp[XMinKey(type)]
        hi    == cmp[XMaxKey(type)]
        fig1  == CompareFigure(pf, names, chs[1], cmp[OffsetKey(chs[1])], lo, hi)
        fig2  == CompareFigure(pf, names, chs[2], cmp[OffsetKey(chs[2])], lo, hi)
        bad   == [ok |-> FALSE, channel |-> chs[1], error |-> "StreamlitAPIException"]
    IN  IF ~(0 <= lo /\ lo <= top)
        THEN [ok |-> FALSE, figures |-> <<bad>>, inputs |-> {OffsetKey(chs[1])}]
        ELSE IF ~(lo + 1 <= hi /\ hi <= top)
        THEN [ok |-> FALSE, figures |-> <<bad>>,
              inputs |-> {OffsetKey(chs[1]), XMinKey(type)}]
        ELSE IF ~fig1.ok
        THEN [ok |-> FALSE, figures |-> <<fig1>>,
              inputs |-> {OffsetKey(chs[1]), XMinKey(type), XMaxKey(type)}]
        ELSE [ok |-> fig2.ok, figures |-> <<fig1, fig2>>,
              inputs |-> {OffsetKey(chs[1]), XMinKey(type), XMaxKey(type),
                          OffsetKey(chs[2])}]

\* One run of show_compare_all_charts: the TempStrain group, then the
\* BrillFrequency group, then the Back button; an exception ends the run.
RenderCompare(pf, cmp) ==
    LET ts == IF OfType(pf, "TempStrain") = {}
              THEN [ok |-> TRUE, figures |-> <<>>, inputs |-> {}]
              ELSE RenderGroup(pf, "TempStrain", cmp)
        bf == IF ~ts.ok \/ OfType(pf, "BrillFrequency") = {}
              THEN [ok |-> ts.ok, figures |-> <<>>, inputs |-> {}]
              ELSE RenderGroup(pf, "BrillFrequency", cmp)
    IN  [figures |-> ts.figures \o bf.figures,
         inputs  |-> ts.inputs \cup bf.inputs,
         back    |-> bf.ok]


\* A slip of the button: drawn as soon as one file is processed.
CompareAllWithOne ==
    /\ authenticated /\ ~show_compare_all
    /\ Cardinality(DOMAIN processed_files) >= 1
    /\ show_compare_all' = TRUE
    /\ compare' = CompareKeys(processed_files, compare)
    /\ overlay' = RenderCompare(processed_files, compare')
    /\ shown' = <<>>
    /\ last' = [op |-> "compare_all"]
    /\ UNCHANGED <<slots, processed_files, batch, viewVars, authVars>>

\* The Compare All Charts button, shown with two or more processed files:
\* the next run draws the combined view.
CompareAll ==
    /\ authenticated /\ ~show_compare_all
    /\ Cardinality(DOMAIN processed_files) >= 2
    /\ show_compare_all' = TRUE
    /\ compare' = CompareKeys(processed_files, compare)
    /\ overlay' = RenderCompare(processed_files, compare')
    /\ shown' = <<>>
    /\ last' = [op |-> "compare_all"]
    /\ UNCHANGED <<slots, processed_files, batch, viewVars, authVars>>

\* Back to Individual Analysis
Back ==
    /\ authenticated /\ show_compare_all /\ overlay.back
    /\ show_compare_all' = FALSE
    /\ overlay' = NoOverlay
    /\ shown' = <<>>
    /\ last' = [op |-> "back"]
    /\ UNCHANGED <<slots, processed_files, compare, batch, viewVars, authVars>>

\* The user edits one drawn number input of the combined view; the view
\* runs again.
SetCompare(key, v) ==
    /\ authenticated /\ show_compare_all
    /\ key \in overlay.inputs
    /\ compare' = [compare EXCEPT ![key] = v]
    /\ overlay' = RenderCompare(processed_files, compare')
    /\ shown' = <<>>
    /\ last' = [op |-> "set_compare", key |-> key]
    /\ UNCHANGED <<slots, processed_files, show_compare_all, batch, viewVars, authVars>>

\* Y-Axis Offset of a combined chart
SetCompareOffset(ch, off) == SetCompare(OffsetKey(ch), off)

\* X-Axis Min of a group: the input takes 0..max_points-1.
SetCompareXMin(type, lo) ==
    /\ OfType(processed_files, type) # {}
    /\ 0 <= lo /\ lo <= MaxPointsOf(processed_files, OfType(processed_files, type)) - 1
    /\ SetCompare(XMinKey(type), lo)

\* X-Axis Max of a group: the input takes x_min+1..max_points-1.
SetCompareXMax(type, hi) ==
    /\ OfType(processed_files, type) # {}
    /\ XMinKey(type) \in DOMAIN compare
    /\ compare[XMinKey(type)] + 1 <= hi
    /\ hi <= MaxPointsOf(processed_files, OfType(processed_files, type)) - 1
    /\ SetCompare(XMaxKey(type), hi)

\* The results of the named files once each has been processed.
Processed(names) == [n \in names |-> process_bts_file(Catalogue(n)).value]

\* A session in which the two TempStrain files are processed, with or
\* without the BrillFrequency file.
CompareInit ==
    /\ file = Catalogue("a.h5")
    /\ ViewIdle
    /\ LoggedIn
    /\ slots = <<Some("a.h5"), Some("b.h5"), Some("c.h5")>>
    /\ \E names \in {{"a.h5", "b.h5"}, {"a.h5", "b.h5", "c.h5"}} :
           processed_files = Processed(names)
    /\ show_compare_all = FALSE
    /\ compare = <<>>
    /\ overlay = NoOverlay
    /\ batch = <<>>
    /\ shown = <<>>
    /\ last = NoInteraction

\* The offsets tried on the combined charts.
CompareOffsetChoices == {0, 5}

CompareNext ==
    \/ CompareAll
    \/ Back
    \/ \E ch \in {"temp", "strain", "freq", "amp"}, off \in CompareOffsetChoices :
           SetCompareOffset(ch, off)
    \/ \E type \in {"TempStrain", "BrillFrequency"}, lo \in 0..MaxPoints :
           SetCompareXMin(type, lo)
    \/ \E type \in {"TempStrain", "BrillFrequency"}, hi \in 0..MaxPoints :
           SetCompareXMax(type, hi)

CompareSpec == CompareInit /\ [][CompareNext]_vars

(***************************************************************************)
(* Authentication                                                          *)
(***************************************************************************)
MAX_LOGIN_ATTEMPTS == 3
\* timedelta(minutes=15) of check_lock_account
LockMinutes == 15
\* SESSION_TIMEOUT, in minutes
SessionTimeoutMinutes == 30
\* The clock stops here.
MaxNow == 32

\* hashlib.sha256(password.encode()).hexdigest(): one digest per password.
hash_password(password) == "sha256:" \o password

\* CREDENTIALS
CREDENTIALS ==
    [engineer |-> [password_hash |-> hash_password("tunnel123"),
                   name |-> "Field Engineer", role |-> "engineer"]]

\* hmac.compare_digest(hash_password(password), password_hash)
verify_password(password, password_hash) == hash_password(password) = password_hash

\* What the login form may be filled with.
Usernames == {"engineer", "admin"}
Passwords == {"tunnel123", "guess"}

\* The five authentication keys of st.session_state.
AuthState ==
    [authenticated |-> authenticated, user_info |-> user_info, login_time |-> login_time,
     login_attempts |-> login_attempts, locked_until |-> locked_until]

\* A slip of the lock: it is set, and the count of failures is kept.
check_lock_account_keeping(s, t) ==
    IF s.login_attempts >= MAX_LOGIN_ATTEMPTS
    THEN [s EXCEPT !.locked_until = Some(t + LockMinutes)]
    ELSE s

\* A slip of the threshold: the lock needs more than MAX_LOGIN_ATTEMPTS failures.
check_lock_account_above(s, t) ==
    IF s.login_attempts > MAX_LOGIN_ATTEMPTS
    THEN [s EXCEPT !.locked_until = Some(t + LockMinutes), !.login_attempts = 0]
    ELSE s

\* check_lock_account at time t
check_lock_account(s, t) ==
    IF s.login_attempts >= MAX_LOGIN_ATTEMPTS
    THEN [s EXCEPT !.locked_until = Some(t + LockMinutes), !.login_attempts = 0]
    ELSE s

\* A slip of the lock test: the lock still holds at locked_until itself.
LockHoldsInclusive(s, t) == ~s.locked_until.none /\ t <= s.locked_until.value

\* locked_until is set and datetime.now() < locked_until
LockHolds(s, t) == ~s.locked_until.none /\ t < s.locked_until.value

\* The failure branch of authenticate: count the attempt, then check_lock_account.
Rejected(s, t) ==
    [state |-> check_lock_account([s EXCEPT !.login_attempts = @ + 1], t),
     ok |-> FALSE, msg |-> "invalid"]

\* authenticate(username, password) at time t on the state s: the state it
\* leaves and the pair it returns.
authenticate(s, username, password, t) ==
    IF LockHolds(s, t) THEN [state |-> s, ok |-> FALSE, msg |-> "locked"]
    ELSE LET u == IF ~s.locked_until.none
                  THEN [s EXCEPT !.locked_until = None, !.login_attempts = 0]
                  ELSE s
         IN  IF username \notin DOMAIN CREDENTIALS THEN Rejected(u, t)
             ELSE IF ~verify_password(password, CREDENTIALS[username].password_hash)
             THEN Rejected(u, t)
             ELSE [state |-> [u EXCEPT !.authenticated = TRUE,
                                       !.user_info = [username |-> username,
                                                      name |-> CREDENTIALS[username].name,
                                                      role |-> CREDENTIALS[username].role],
                                       !.login_time = Some(t),
                                       !.login_attempts = 0],
                   ok |-> TRUE, msg |-> "welcome"]

\* A slip of the routing: the dashboard whatever the session says.
mainOpen(auth) == "dashboard"

\* main(): the page a run draws for the session's authenticated flag.
main(auth) == IF auth THEN "dashboard" ELSE "login"

\* A slip of the timeout test: a session of exactly SESSION_TIMEOUT has expired.
check_session_timeout_inclusive(s, t) ==
    /\ s.authenticated /\ ~s.login_time.none
    /\ t - s.login_time.value >= SessionTimeoutMinutes

\* check_session_timeout() at time t: whether it finds the session expired
\* (and then calls logout).
check_session_timeout(s, t) ==
    /\ s.authenticated /\ ~s.login_time.none
    /\ t - s.login_time.value > SessionTimeoutMinutes

\* get_current_user() on the state s
get_current_user(s) == IF s.authenticated THEN s.user_info ELSE None

\* The log keeps the last MAX_LOGIN_ATTEMPTS events.
Logged(events) ==
    IF Len(log \o events) <= MAX_LOGIN_ATTEMPTS THEN log \o events
    ELSE SubSeq(log \o events, Len(log \o events) - MAX_LOGIN_ATTEMPTS + 1, Len(log \o events))

\* What a run draws below the login page or the dashboard: the combined view
\* for a logged-in user who left it open, else nothing of it.
DrawSession(auth) ==
    IF auth /\ show_compare_all /\ DOMAIN processed_files # {}
    THEN /\ compare' = CompareKeys(processed_files, compare)
         /\ overlay' = RenderCompare(processed_files, compare')
    ELSE /\ compare' = compare
         /\ overlay' = NoOverlay

\* The Login button of the form with both fields filled: one authenticate
\* call; the page then shows its answer, or the dashboard after a success.
Authenticate(username, password) ==
    /\ ~authenticated
    /\ LET r == authenticate(AuthState, username, password, now)
       IN  /\ authenticated' = r.state.authenticated
           /\ user_info' = r.state.user_info
           /\ login_time' = r.state.login_time
           /\ login_attempts' = r.state.login_attempts
           /\ locked_until' = r.state.locked_until
           /\ login_page' = [reset_button |-> ~locked_until.none, ok |-> r.ok, msg |-> r.msg]
           /\ log' = Logged((IF ~locked_until.none /\ r.msg # "locked"
                             THEN <<"unlock">> ELSE <<>>) \o <<r.msg>>)
           /\ lock_set' = IF ~r.state.locked_until.none /\ r.state.locked_until # locked_until
                          THEN r.state.locked_until ELSE lock_set
           /\ page' = main(r.state.authenticated)
           /\ DrawSession(r.ok)
    /\ last' = [op |-> "authenticate", username |-> username, password |-> password]
    /\ shown' = <<>>
    /\ UNCHANGED <<now, slots, processed_files, show_compare_all, batch, viewVars>>

\* The Login button with an empty field: authenticate is not called.
SubmitEmpty ==
    /\ ~authenticated
    /\ login_page' = [reset_button |-> ~locked_until.none, ok |-> FALSE, msg |-> "enter both"]
    /\ last' = [op |-> "submit_empty"]
    /\ page' = main(authenticated)
    /\ UNCHANGED <<authenticated, user_info, login_time, login_attempts, locked_until,
                   now, log, lock_set, slots, processed_files, show_compare_all, compare, overlay,
                   batch, shown, viewVars>>

\* Reset Lock (Emergency), drawn on the login page while locked_until is set.
ResetLock ==
    /\ ~authenticated /\ login_page.reset_button
    /\ locked_until' = None
    /\ login_attempts' = 0
    /\ login_page' = NoAnswer
    /\ log' = Logged(<<"reset">>)
    /\ last' = [op |-> "reset_lock"]
    /\ page' = main(authenticated)
    /\ UNCHANGED <<authenticated, user_info, login_time, now, lock_set, slots, processed_files,
                   show_compare_all, compare, overlay, batch, shown, viewVars>>

\* A slip of logout: user_info is left in the session.
LoggedOutKeeping(op) ==
    /\ authenticated' = FALSE
    /\ login_time' = None
    /\ login_page' = [reset_button |-> ~locked_until.none, ok |-> FALSE, msg |-> "none"]
    /\ overlay' = NoOverlay
    /\ shown' = <<>>
    /\ last' = [op |-> op]
    /\ page' = main(FALSE)
    /\ UNCHANGED <<user_info, login_attempts, locked_until, now, log, lock_set, slots,
                   processed_files, show_compare_all, compare, batch, viewVars>>

\* A slip of logout: the results of the session are dropped with the login.
LoggedOutClearing(op) ==
    /\ authenticated' = FALSE
    /\ user_info' = None
    /\ login_time' = None
    /\ login_page' = [reset_button |-> ~locked_until.none, ok |-> FALSE, msg |-> "none"]
    /\ overlay' = NoOverlay
    /\ shown' = <<>>
    /\ last' = [op |-> op]
    /\ page' = main(FALSE)
    /\ processed_files' = <<>>
    /\ UNCHANGED <<login_attempts, locked_until, now, log, lock_set, slots,
                   show_compare_all, compare, batch, viewVars>>

\* logout(): the three keys it clears; the next run draws the login page.
LoggedOut(op) ==
    /\ authenticated' = FALSE
    /\ user_info' = None
    /\ login_time' = None
    /\ login_page' = [reset_button |-> ~locked_until.none, ok |-> FALSE, msg |-> "none"]
    /\ overlay' = NoOverlay
    /\ shown' = <<>>
    /\ last' = [op |-> op]
    /\ page' = main(FALSE)
    /\ UNCHANGED <<login_attempts, locked_until, now, log, lock_set, slots, processed_files,
                   show_compare_all, compare, batch, viewVars>>

\* The Logout button of the sidebar, in a run of the dashboard that
\* check_session_timeout lets through.
Logout ==
    /\ authenticated /\ ~check_session_timeout(AuthState, now)
    /\ LoggedOut("logout")

\* A run of show_dashboard that finds the session older than SESSION_TIMEOUT:
\* logout() and its st.rerun() end the run before anything is drawn.
SessionTimeout ==
    /\ authenticated /\ check_session_timeout(AuthState, now)
    /\ LoggedOut("timeout")

\* A run of show_dashboard that check_session_timeout lets through, with no
\* button pressed: the sidebar and the selected page are drawn again.
ShowDashboard ==
    /\ authenticated /\ ~check_session_timeout(AuthState, now)
    /\ page' = main(authenticated)
    /\ last' = [op |-> "dashboard"]
    /\ UNCHANGED <<authenticated, user_info, login_time, login_attempts, locked_until,
                   now, login_page, log, lock_set, slots, processed_files,
                   show_compare_all, compare, overlay, batch, shown, viewVars>>

\* A minute passes.
Tick ==
    /\ now < MaxNow
    /\ now' = now + 1
    /\ last' = [op |-> "tick"]
    /\ UNCHANGED <<authenticated, user_info, login_time, login_attempts, locked_until,
                   login_page, log, lock_set, page, slots, processed_files,
                   show_compare_all, compare,
                   overlay, batch, shown, viewVars>>

\* A fresh session: init_auth_state and the login page.
AuthInit ==
    /\ file = CorruptFile
    /\ ViewIdle
    /\ SessInit
    /\ authenticated = FALSE
    /\ user_info = None
    /\ login_time = None
    /\ login_attempts = 0
    /\ locked_until = None
    /\ now = 0
    /\ login_page = NoAnswer
    /\ log = <<>>
    /\ lock_set = None
    /\ page = "login"

AuthNext ==
    \/ \E username \in Usernames, password \in Passwords : Authenticate(username, password)
    \/ SubmitEmpty
    \/ ResetLock
    \/ Logout
    \/ SessionTimeout
    \/ ShowDashboard
    \/ Tick

AuthSpec == AuthInit /\ [][AuthNext]_vars

(***************************************************************************)
(* The session of several files: upload slots and processed files          *)
(***************************************************************************)
\* The most upload slots a session opens.
MaxSlots == 2

\* The upload page is drawn: a logged-in user outside the combined view.
InFileView == authenticated /\ ~(show_compare_all /\ DOMAIN processed_files # {})

\* del processed_files[name]
Without(pf, names) == [n \in DOMAIN pf \ names |-> pf[n]]

\* The names of the files the upload slots hold.
Uploaded == {slots[i].value : i \in {j \in 1..Len(slots) : ~slots[j].none}}

\* Add Slot
AddSlot ==
    /\ InFileView /\ Len(slots) < MaxSlots
    /\ slots' = Append(slots, None)
    /\ shown' = <<>> /\ batch' = <<>>
    /\ last' = [op |-> "add_slot"]
    /\ UNCHANGED <<processed_files, show_compare_all, compare, overlay, viewVars, authVars>>

\* The user puts a file into an upload slot.
Upload(i, name) ==
    /\ InFileView /\ i \in 1..Len(slots)
    /\ slots[i] # Some(name)
    /\ slots' = [slots EXCEPT ![i] = Some(name)]
    /\ shown' = <<>> /\ batch' = <<>>
    /\ last' = [op |-> "upload"]
    /\ UNCHANGED <<processed_files, show_compare_all, compare, overlay, viewVars, authVars>>

\* What the file of that name in a slot may hold: the catalogue's file, or
\* another, unreadable file the user has given the same name.
SlotContents(name) == {Catalogue(name), CorruptFile}

\* A slip of the Process button: the result is stored whatever its success.
ProcessSlotStoring(i) ==
    /\ InFileView /\ i \in 1..Len(slots) /\ ~slots[i].none
    /\ \E f \in SlotContents(slots[i].value) :
          LET name == slots[i].value
              r    == process_bts_file(f)
          IN  /\ processed_files' = (name :> r.value) @@ processed_files
              /\ shown' = <<>>
    /\ batch' = <<>>
    /\ last' = [op |-> "process"]
    /\ UNCHANGED <<slots, show_compare_all, compare, overlay, viewVars, authVars>>

\* The Process button of a slot: a success is stored under the file's name
\* and the page runs again; a failure is shown in the slot.
ProcessSlot(i) ==
    /\ InFileView /\ i \in 1..Len(slots) /\ ~slots[i].none
    /\ \E f \in SlotContents(slots[i].value) :
          LET name == slots[i].value
              r    == process_bts_file(f)
          IN  IF r.kind = "returned" /\ r.value.success
              THEN /\ processed_files' = (name :> r.value) @@ processed_files
                   /\ shown' = <<>>
              ELSE /\ processed_files' = processed_files
                   /\ shown' = <<[level |-> "error", slot |-> i, name |-> name]>>
    /\ batch' = <<>>
    /\ last' = [op |-> "process"]
    /\ UNCHANGED <<slots, show_compare_all, compare, overlay, viewVars, authVars>>

\* The remove button of a slot: the result of the slot's file is deleted, and
\* the number of slots goes down by one, but not below one: the last slot is
\* the one that is no longer drawn.
RemoveSlot(i) ==
    /\ InFileView /\ i \in 1..Len(slots)
    /\ LET held == IF slots[i].none THEN {} ELSE {slots[i].value}
       IN  /\ processed_files' = Without(processed_files, held)
           /\ last' = [op |-> "remove_slot", names |-> held]
    /\ slots' = IF Len(slots) > 1 THEN SubSeq(slots, 1, Len(slots) - 1) ELSE slots
    /\ shown' = <<>> /\ batch' = <<>>
    /\ UNCHANGED <<show_compare_all, compare, overlay, viewVars, authVars>>

\* The loop of Process All from slot i on: a file already processed is
\* skipped; a success is stored; a result with success=False is dropped; an
\* exception is shown and the loop goes on.
RECURSIVE BatchLoop(_, _, _, _)
BatchLoop(i, pf, called, errors) ==
    IF i > Len(slots) THEN [pf |-> pf, called |-> called, errors |-> errors]
    ELSE IF slots[i].none \/ (~slots[i].none /\ slots[i].value \in DOMAIN pf)
    THEN BatchLoop(i + 1, pf, called, errors)
    ELSE LET name == slots[i].value
             r    == process_bts_file(Catalogue(name))
         IN  IF r.kind = "raised"
             THEN BatchLoop(i + 1, pf, Append(called, name),
                            Append(errors, [level |-> "error", slot |-> i, name |-> name]))
             ELSE IF r.value.success
             THEN BatchLoop(i + 1, (name :> r.value) @@ pf, Append(called, name), errors)
             ELSE BatchLoop(i + 1, pf, Append(called, name), errors)

\* Process All, drawn when a slot holds a file: the loop, then st.rerun(),
\* which draws the page anew without the messages of the loop.
ProcessAll ==
    /\ InFileView /\ Uploaded # {}
    /\ LET done == BatchLoop(1, processed_files, <<>>, <<>>)
       IN  /\ processed_files' = done.pf
           /\ batch' = done.called
    /\ shown' = <<>>
    /\ last' = [op |-> "process_all"]
    /\ UNCHANGED <<slots, show_compare_all, compare, overlay, viewVars, authVars>>

\* The Remove button of a processed file.
Remove(name) ==
    /\ InFileView /\ name \in DOMAIN processed_files
    /\ processed_files' = Without(processed_files, {name})
    /\ shown' = <<>> /\ batch' = <<>>
    /\ last' = [op |-> "remove", names |-> {name}]
    /\ UNCHANGED <<slots, show_compare_all, compare, overlay, viewVars, authVars>>

\* Clear All, drawn when some file is processed.
ClearAll ==
    /\ InFileView /\ DOMAIN processed_files # {}
    /\ processed_files' = <<>>
    /\ shown' = <<>> /\ batch' = <<>>
    /\ last' = [op |-> "clear_all"]
    /\ UNCHANGED <<slots, show_compare_all, compare, overlay, viewVars, authVars>>

\* A session of a logged-in user with the files of the catalogue at hand.
SessionInit ==
    /\ file = CorruptFile
    /\ ViewIdle
    /\ SessInit
    /\ LoggedIn

SessionNext ==
    \/ AddSlot
    \/ \E i \in 1..MaxSlots, name \in FileNames : Upload(i, name)
    \/ \E i \in 1..MaxSlots : ProcessSlot(i)
    \/ \E i \in 1..MaxSlots : RemoveSlot(i)
    \/ ProcessAll
    \/ \E name \in FileNames : Remove(name)
    \/ ClearAll
    \/ CompareAll
    \/ Back
    \/ Logout
    \/ Authenticate("engineer", "tunnel123")

SessionSpec == SessionInit /\ [][SessionNext]_vars

(***************************************************************************)
(* The report of a two-file comparison                                     *)
(***************************************************************************)
\* ax.plot(x, y) takes x and y of the same length; a scalar y counts as one
\* point.
CanPlot(x, y) ==
    \/ ndim(y) = 1 /\ y.shape = x.shape
    \/ ndim(y) = 0 /\ x.shape = <<1>>

\* One comparison page: the first frames of a channel of both files against
\* their distance arrays, as stored.
ComparisonPage(result1, result2, ch) ==
    IF result2.file_type # "TempStrain"
    THEN [ok |-> FALSE, error |-> "KeyError"]
    ELSE IF ~CanPlot(result1.distance, FirstFrame(result1, ch))
            \/ ~CanPlot(result2.distance, FirstFrame(result2, ch))
    THEN [ok |-> FALSE, error |-> "ValueError"]
    ELSE [ok |-> TRUE, kind |-> ch,
          lines |-> <<[x |-> result1.distance.data, y |-> FirstFrame(result1, ch).data],
                      [x |-> result2.distance.data, y |-> FirstFrame(result2, ch).data]>>]

\* generate_pdf_report(result_data, filenames, 'comparison'): the cover page,
\* and for a TempStrain first file the temperature and the strain page; or
\* the exception that leaves the call.
generate_comparison_report(result1, result2) ==
    LET cover  == [ok |-> TRUE, kind |-> "cover"]
        temp   == ComparisonPage(result1, result2, "temp")
        strain == ComparisonPage(result1, result2, "strain")
    IN  IF result1.file_type # "TempStrain" THEN [ok |-> TRUE, pages |-> <<cover>>]
        ELSE IF ~temp.ok THEN [ok |-> FALSE, error |-> temp.error]
        ELSE IF ~strain.ok THEN [ok |-> FALSE, error |-> strain.error]
        ELSE [ok |-> TRUE, pages |-> <<cover, temp, strain>>]

\* The second file of a comparison.
ComparisonPartners == {"a.h5", "b.h5", "c.h5"}

\* A call of generate_pdf_report on the processed file and the result of a
\* second file.
GenerateComparison(name) ==
    /\ stored.success
    /\ LET result2 == process_bts_file(Catalogue(name)).value
       IN  /\ pdf' = generate_comparison_report(stored, result2)
           /\ last' = [op |-> "comparison",
                       points |-> <<stored.distance_points, result2.distance_points>>]
    /\ UNCHANGED <<file, outcome, stored, controls, charts, csv, widgets, slots, processed_files,
                   show_compare_all, compare, overlay, batch, shown, authVars>>

ComparisonNext ==
    \/ Process
    \/ \E name \in ComparisonPartners : GenerateComparison(name)

ComparisonSpec == ViewInit /\ [][ComparisonNext]_vars

(***************************************************************************)
(* The controls of several processed files: keyed inputs and Reset         *)
(***************************************************************************)
\* The most Reset presses of a session.
MaxResets == 1

\* file_id of a processed file: its name with '.', ' ' and '-' turned into
\* '_' and brackets dropped; here for the names of the catalogue.
file_id(filename) ==
    CASE filename = "a.h5" -> "a_h5"
      [] filename = "b.h5" -> "b_h5"
      [] filename = "c.h5" -> "c_h5"
      [] OTHER             -> "d_h5"

PlotTypes == {"temp", "strain", "freq", "amp"}

\* f'{plot_type}_reset_{file_id}'
ResetKey(ch, name) == ch \o "_reset_" \o file_id(name)

IsResetKey(key) == key \in {ResetKey(ch, name) : ch \in PlotTypes, name \in FileNames}

\* toff, tmin, tmax; soff, smin, smax; foff, ...; aoff, ...
InputPrefix(ch, field) ==
    (CASE ch = "temp" -> "t" [] ch = "strain" -> "s" [] ch = "freq" -> "f" [] OTHER -> "a")
        \o field

\* f"{prefix}_{file_id}_{reset_count}" with the channel's reset counter of
\* the store w
InputKey(w, ch, field, name) ==
    InputPrefix(ch, field) \o "_" \o file_id(name) \o "_"
        \o ToString(Get(w, ResetKey(ch, name), 0))

\* The value argument of an input: what a newly built input holds.
InputDefault(result, field) ==
    CASE field = "off" -> 0
      [] field = "min" -> 0
      [] OTHER         -> result.distance_points - 1

\* What the input of that key holds in the run: the store's value for the
\* key, or the value argument when the key is new.
InputValue(w, result, ch, field, name) ==
    Get(w, InputKey(w, ch, field, name), InputDefault(result, field))

\* t_off, t_min, t_max of a channel's section
ChannelControl(w, result, ch, name) ==
    [off |-> InputValue(w, result, ch, "off", name),
     lo  |-> InputValue(w, result, ch, "min", name),
     hi  |-> InputValue(w, result, ch, "max", name)]

\* One channel's section of a run on the store w: the offset input, the
\* X-Min input, the X-Max input, then the chart; an input whose bounds
\* refuse its value raises and ends the run.
RenderSection(w, result, ch, name) ==
    LET c      == ChannelControl(w, result, ch, name)
        minOk  == XMinAccepts(result, c.lo)
        maxOk  == minOk /\ XMaxAccepts(result, c.lo, c.hi)
        values == (InputKey(w, ch, "off", name) :> c.off)
                  @@ (IF minOk THEN InputKey(w, ch, "min", name) :> c.lo ELSE <<>>)
                  @@ (IF maxOk THEN InputKey(w, ch, "max", name) :> c.hi ELSE <<>>)
        chart  == IF maxOk THEN ChartOf(result, ch, c)
                  ELSE [ok |-> FALSE, channel |-> ch, error |-> "StreamlitAPIException"]
    IN  [values |-> values, chart |-> chart]

\* The order the page shows the processed files in.
FileOrder == <<"a.h5", "b.h5", "c.h5", "d.h5">>

\* The channel sections of the page, in order: <<file name, channel>>.
RECURSIVE SectionsFrom(_, _)
SectionsFrom(pf, k) ==
    IF k > Len(FileOrder) THEN <<>>
    ELSE (IF FileOrder[k] \in DOMAIN pf
          THEN LET chs == ChannelsOf(pf[FileOrder[k]].file_type)
               IN  <<<<FileOrder[k], chs[1]>>, <<FileOrder[k], chs[2]>>>>
          ELSE <<>>) \o SectionsFrom(pf, k + 1)

\* The run of the file view from section k on. Each file first gets its
\* four reset counters and its export options. A run that ends without an
\* exception drops the values of the inputs it has not drawn; one that an
\* exception ends keeps them.
RECURSIVE RenderSections(_, _, _, _, _, _)
RenderSections(pf, secs, k, w, drawn, figures) ==
    IF k > Len(secs)
    THEN [w |-> [key \in {x \in DOMAIN w : x \in drawn \/ IsResetKey(x)} |-> w[key]],
          drawn |-> drawn, figures |-> figures, reached |-> Len(secs)]
    ELSE LET name   == secs[k][1]
             ch     == secs[k][2]
             result == pf[name]
             w1     == w @@ [key \in {ResetKey(t, name) : t \in PlotTypes} |-> 0]
         IN  IF ch = ChannelsOf(result.file_type)[1] /\ ~CsvData(result).ok
             THEN [w |-> w1, drawn |-> drawn, figures |-> figures, reached |-> k - 1]
             ELSE LET r  == RenderSection(w1, result, ch, name)
                      w2 == r.values @@ w1
                      d2 == drawn \cup DOMAIN r.values
                      f2 == Append(figures, [name |-> name, chart |-> r.chart])
                  IN  IF r.chart.ok THEN RenderSections(pf, secs, k + 1, w2, d2, f2)
                      ELSE [w |-> w2, drawn |-> d2, figures |-> f2, reached |-> k]

\* One run of the results part of show_single_file_analysis on the store w.
RenderControls(pf, w) == RenderSections(pf, SectionsFrom(pf, 1), 1, w, {}, <<>>)

\* The section of that file and channel is on the page, as the last run drew
\* it: its Reset button and its offset input are there.
Reached(name, ch) ==
    \E k \in 1..Len(charts) : charts[k].name = name /\ charts[k].chart.channel = ch

\* The input of that field is on the page: the run went past it.
Drawn(name, ch, field) ==
    /\ Reached(name, ch)
    /\ InputKey(widgets, ch, field, name) \in DOMAIN widgets
    /\ LET c == ChannelControl(widgets, processed_files[name], ch, name)
       IN  CASE field = "off" -> TRUE
             [] field = "min" -> XMinAccepts(processed_files[name], c.lo)
             [] OTHER         -> InputsAccept(processed_files[name], c)

\* The page runs again on the store w.
Rerun(w) ==
    LET run == RenderControls(processed_files, w)
    IN  /\ widgets' = run.w
        /\ charts' = run.figures

\* The Reset presses so far.
Resets ==
    LET secs == SectionsFrom(processed_files, 1)
    IN  SeqSum([k \in 1..Len(secs) |-> Get(widgets, ResetKey(secs[k][2], secs[k][1]), 0)])

ControlsFrame ==
    UNCHANGED <<file, outcome, stored, controls, csv, pdf, slots, processed_files,
                show_compare_all, compare, overlay, batch, shown, authVars>>

\* The user edits a channel's Y-Axis Offset.
SetFileOffset(name, ch, off) ==
    /\ InFileView /\ Drawn(name, ch, "off")
    /\ Rerun((InputKey(widgets, ch, "off", name) :> off) @@ widgets)
    /\ last' = [op |-> "set_input"]
    /\ ControlsFrame

\* The user edits a channel's X-Axis Min.
SetFileXMin(name, ch, lo) ==
    /\ InFileView /\ Drawn(name, ch, "min")
    /\ XMinAccepts(processed_files[name], lo)
    /\ \E hi \in XMaxAfter(processed_files[name],
                          ChannelControl(widgets, processed_files[name], ch, name), lo) :
          Rerun((InputKey(widgets, ch, "min", name) :> lo)
                @@ (InputKey(widgets, ch, "max", name) :> hi) @@ widgets)
    /\ last' = [op |-> "set_input"]
    /\ ControlsFrame

\* The user edits a channel's X-Axis Max.
SetFileXMax(name, ch, hi) ==
    /\ InFileView /\ Drawn(name, ch, "max")
    /\ XMaxAccepts(processed_files[name],
                   InputValue(widgets, processed_files[name], ch, "min", name), hi)
    /\ Rerun((InputKey(widgets, ch, "max", name) :> hi) @@ widgets)
    /\ last' = [op |-> "set_input"]
    /\ ControlsFrame

\* A slip of Reset: one counter for the file, so both channels get new keys.
ResetChannelOfFile(name, ch) ==
    /\ InFileView /\ Reached(name, ch) /\ Resets < MaxResets
    /\ Rerun([key \in {ResetKey(t, name) : t \in PlotTypes}
                 |-> Get(widgets, key, 0) + 1] @@ widgets)
    /\ last' = [op |-> "reset", name |-> name, channel |-> ch]
    /\ ControlsFrame

\* The Reset button of a channel: its counter goes up by one and the page
\* runs again, so the channel's three inputs are built under new keys.
ResetChannel(name, ch) ==
    /\ InFileView /\ Reached(name, ch) /\ Resets < MaxResets
    /\ Rerun((ResetKey(ch, name) :> Get(widgets, ResetKey(ch, name), 0) + 1) @@ widgets)
    /\ last' = [op |-> "reset", name |-> name, channel |-> ch]
    /\ ControlsFrame

\* A file of each variant processed, and their sections drawn for the first
\* time.
ControlsInit ==
    /\ file = Catalogue("a.h5")
    /\ outcome = NoCall /\ stored = NoResult /\ controls = <<>>
    /\ csv = NoCsv /\ pdf = NoPdf
    /\ LoggedIn
    /\ slots = <<Some("a.h5"), Some("c.h5")>>
    /\ processed_files = Processed({"a.h5", "c.h5"})
    /\ widgets = RenderControls(processed_files, <<>>).w
    /\ charts = RenderControls(processed_files, <<>>).figures
    /\ show_compare_all = FALSE
    /\ compare = <<>>
    /\ overlay = NoOverlay
    /\ batch = <<>>
    /\ shown = <<>>
    /\ last = NoInteraction

\* The offsets tried on the channels of the files.
ControlOffsetChoices == {0, 5}

\* The section whose X-range inputs are tried; offsets and Reset are tried
\* on every section.
RangeEdited == {<<"a.h5", "temp">>}

ControlsNext ==
    \/ \E name \in DOMAIN processed_files, ch \in PlotTypes, off \in ControlOffsetChoices :
           SetFileOffset(name, ch, off)
    \/ \E sec \in RangeEdited, lo \in 0..MaxPoints : SetFileXMin(sec[1], sec[2], lo)
    \/ \E sec \in RangeEdited, hi \in 0..MaxPoints : SetFileXMax(sec[1], sec[2], hi)
    \/ \E name \in DOMAIN processed_files, ch \in PlotTypes : ResetChannel(name, ch)

ControlsSpec == ControlsInit /\ [][ControlsNext]_vars

(***************************************************************************)
(* Properties                                                              *)
(***************************************************************************)
Called == outcome.kind # "none"
Returned == outcome.kind = "returned"
Succeeded == Returned /\ outcome.value.success
Failed == Returned /\ ~outcome.value.success

Has(name) == Contains(file, name)
HasTime == file.kind = "hdf5" /\ Has(TimeName)
HasAll == \A i \in 1..4 : Has(MarkerNames[i])

\* A dataset as the data model describes it: 2-D with at least one frame.
WellFormed(name) ==
    Len(file.ds[name].shape) = 2 /\ file.ds[name].shape[1] >= 1
AllWellFormed == \A i \in 1..4 : Has(MarkerNames[i]) => WellFormed(MarkerNames[i])

\* Element (f, j), both 0-based, of a 2-D dataset of the file.
Elem(name, f, j) == file.ds[name].data[f * file.ds[name].shape[2] + j + 1]
SecondDim(name) == file.ds[name].shape[2]

PresenceToken(name, found) == name \o (IF found THEN "=True" ELSE "=False")
Mentions(msg, token) == \E k \in 1..Len(msg) : msg[k] = token

\* C2: when the time dataset is present and neither pair is complete, the
\* result is success=False and its message names each of the four probed
\* datasets with whether it was found.
C2_PresenceDiagnostics ==
    (Called /\ HasTime
        /\ ~(Has("StrainData") /\ Has("TemperatureData"))
        /\ ~(Has("FrequencyData") /\ Has("AmplitudeData"))) =>
        /\ Failed
        /\ \A i \in 1..4 :
              Mentions(outcome.value.error,
                       PresenceToken(MarkerNames[i], Has(MarkerNames[i])))

\* C3: over the 16 presence combinations (time dataset present, arrays
\* well-formed) the result is TempStrain exactly when StrainData and
\* TemperatureData are both present, BrillFrequency exactly when that fails
\* and FrequencyData and AmplitudeData are both present, and success=False
\* otherwise.
C3_Classification ==
    (Called /\ HasTime /\ AllWellFormed) =>
        LET st == Has("StrainData") /\ Has("TemperatureData")
            fa == Has("FrequencyData") /\ Has("AmplitudeData")
        IN  /\ Returned
            /\ st => (outcome.value.success /\ outcome.value.file_type = "TempStrain")
            /\ (~st /\ fa) =>
                  (outcome.value.success /\ outcome.value.file_type = "BrillFrequency")
            /\ (~st /\ ~fa) => ~outcome.value.success

C3_Witness ==
    /\ HasTime /\ AllWellFormed
    /\ Has("StrainData") /\ Has("FrequencyData")
    /\ ~Has("TemperatureData") /\ ~Has("AmplitudeData")
    /\ Failed

\* first is row 0 of the dataset, element by element.
IsRow0(first, name) ==
    /\ first.shape = <<SecondDim(name)>>
    /\ Len(first.data) = SecondDim(name)
    /\ \A j \in 0..(SecondDim(name) - 1) : first.data[j + 1] = Elem(name, 0, j)

\* first differs from every later frame of the dataset that has points.
NotLaterRow(first, name) ==
    \A f \in 1..(file.ds[name].shape[1] - 1) :
        \A j \in 0..(SecondDim(name) - 1) : first.data[j + 1] # Elem(name, f, j)

\* C4: in a success result the first-frame slices are row 0 of their 2-D
\* datasets and of no other frame, distance_points is the second dimension
\* of the first-named dataset, and distance is 0..distance_points-1.
C4_FrameSlicing ==
    Succeeded =>
        LET r  == outcome.value
            ts == r.file_type = "TempStrain"
            a  == IF ts THEN "StrainData" ELSE "FrequencyData"
            b  == IF ts THEN "TemperatureData" ELSE "AmplitudeData"
            fa == IF ts THEN r.strain_first ELSE r.freq_first
            fb == IF ts THEN r.temp_first ELSE r.amp_first
        IN  /\ IsRow0(fa, a) /\ NotLaterRow(fa, a)
            /\ Len(file.ds[b].shape) = 2 => (IsRow0(fb, b) /\ NotLaterRow(fb, b))
            /\ r.distance_points = SecondDim(a)
            /\ r.distance.shape = <<SecondDim(a)>>
            /\ Len(r.distance.data) = SecondDim(a)
            /\ \A k \in 1..SecondDim(a) : r.distance.data[k] = k - 1

C4_Witness ==
    /\ Succeeded /\ outcome.value.file_type = "TempStrain"
    /\ file.ds["StrainData"].shape = <<MaxFrames, MaxPoints>>
    /\ file.ds["TemperatureData"].shape = <<MaxFrames, MaxPoints>>
    /\ outcome.value.distance_points = MaxPoints

\* C5: a container without the time dataset (or without the prefix) gives
\* success=False with an error message and no exception, also when a
\* complete pair of a variant is present.
C5_MissingTime ==
    (Called /\ file.kind = "hdf5" /\ ~Has(TimeName)) =>
        /\ Failed
        /\ "error" \in DOMAIN outcome.value
        /\ outcome.value.error # <<>>

C5_Witness ==
    /\ file.kind = "hdf5" /\ ~Has(TimeName)
    /\ Has("StrainData") /\ Has("TemperatureData")
    /\ WellFormed("StrainData") /\ WellFormed("TemperatureData")
    /\ Failed

\* C6: every call returns a record with a boolean success field, with error
\* set when success is False; no exception reaches the caller.
C6_NoErrorEscapes ==
    Called =>
        /\ Returned
        /\ "success" \in DOMAIN outcome.value
        /\ outcome.value.success \in BOOLEAN
        /\ ~outcome.value.success => "error" \in DOMAIN outcome.value

\* A detected variant whose first array has no frames.
C6_Witness ==
    /\ HasTime /\ Has("StrainData") /\ Has("TemperatureData")
    /\ ~WellFormed("StrainData")
    /\ Failed

CommonFields == {"success", "file_type", "time", "distance", "distance_points", "metadata"}
TempStrainFields == CommonFields \cup {"strain_full", "temp_full", "strain_first", "temp_first"}
BrillFrequencyFields == CommonFields \cup {"freq_full", "amp_full", "freq_first", "amp_first"}
FailureFields == {"success", "error"}

\* C7: every returned value is a success record with exactly the fields of
\* one variant, or a failure record with success and error only.
C7_NoPartialResult ==
    Returned =>
        LET r == outcome.value
        IN  IF r.success
            THEN \/ /\ r.file_type = "TempStrain"
                    /\ DOMAIN r = TempStrainFields
                    /\ DOMAIN r.metadata = {"time_shape", "strain_shape", "temp_shape"}
                 \/ /\ r.file_type = "BrillFrequency"
                    /\ DOMAIN r = BrillFrequencyFields
                    /\ DOMAIN r.metadata = {"time_shape", "freq_shape", "amp_shape"}
            ELSE DOMAIN r = FailureFields

C7_Witness ==
    /\ HasTime /\ ~Has("StrainData") /\ Has("FrequencyData") /\ ~Has("AmplitudeData")
    /\ Failed /\ outcome.value.error = UnknownFormatError

\* C9: with both arrays of the detected pair 2-D and non-empty along axis 0,
\* the call succeeds and distance_points and the length of distance are the
\* second dimension of the first-named array, whatever the second array's
\* second dimension is.
C9_DistancePointsFromFirst ==
    (Called /\ HasTime) =>
        LET st == Has("StrainData") /\ Has("TemperatureData")
            fa == Has("FrequencyData") /\ Has("AmplitudeData")
            a  == IF st THEN "StrainData" ELSE "FrequencyData"
            b  == IF st THEN "TemperatureData" ELSE "AmplitudeData"
        IN  ((st \/ fa) /\ WellFormed(a) /\ WellFormed(b)) =>
                /\ Succeeded
                /\ outcome.value.distance_points = SecondDim(a)
                /\ Len(outcome.value.distance.data) = SecondDim(a)

C9_Witness ==
    /\ Succeeded /\ outcome.value.file_type = "TempStrain"
    /\ WellFormed("TemperatureData")
    /\ SecondDim("TemperatureData") # SecondDim("StrainData")
    /\ outcome.value.distance_points = SecondDim("StrainData")

\* A plotted series is the slice lo..hi of first + off against x = lo..hi.
IsOffsetSlice(p) ==
    LET A == FirstFrame(stored, p.channel).data
    IN  /\ 0 <= p.lo /\ p.lo <= p.hi /\ p.hi <= stored.distance_points - 1
        /\ Len(p.x) = p.hi - p.lo + 1
        /\ Len(p.y) = p.hi - p.lo + 1
        /\ \A k \in 1..(p.hi - p.lo + 1) :
              /\ p.x[k] = p.lo + k - 1
              /\ p.y[k] = A[p.lo + k] + p.off

\* C10: every chart drawn for a channel, and every plot page of a report,
\* shows (A + o)[lo:hi+1] against x = lo..hi for the channel's first-frame
\* array A and the offset and range in force.
C10_OffsetRangeComposition ==
    /\ \A i \in 1..Len(charts) :
          charts[i].ok =>
              /\ charts[i].off = controls[i].off
              /\ charts[i].lo = controls[i].lo
              /\ charts[i].hi = controls[i].hi
              /\ IsOffsetSlice(charts[i])
    /\ pdf.ok => \A i \in 1..Len(pdf.pages) : IsOffsetSlice(pdf.pages[i])

C10_Witness ==
    /\ Len(charts) = 2
    /\ charts[1].ok /\ charts[1].lo = 1 /\ charts[1].hi = 2 /\ charts[1].off = 5
    /\ charts[2].ok /\ charts[2].lo = 0 /\ charts[2].hi = 1
    /\ pdf.ok

(***************************************************************************)
(* Exports: the statistics of the report, the CSV, the surfaces            *)
(***************************************************************************)
\* (A + o)[lo:hi+1] for 0 <= lo: the elements at the indices lo..hi that exist.
OffsetSlice(result, ch, off, lo, hi) ==
    LET d   == AddOffset(FirstFrame(result, ch), off).data
        top == IF hi + 1 < Len(d) THEN hi + 1 ELSE Len(d)
    IN  [k \in 1..(top - lo) |-> d[lo + k]]

IsMinOf(m, s) == (\E k \in 1..Len(s) : s[k] = m) /\ (\A k \in 1..Len(s) : m <= s[k])
IsMaxOf(m, s) == (\E k \in 1..Len(s) : s[k] = m) /\ (\A k \in 1..Len(s) : m >= s[k])

\* The slice the i-th plot page of the report says it shows.
PageSlice(i) ==
    OffsetSlice(stored, pdf.pages[i].channel, pdf.pages[i].off,
                pdf.pages[i].lo, pdf.pages[i].hi)

\* The four statistics of every plot page are those of the page's slice.
PlotStatsOverSlice ==
    pdf.ok =>
        \A i \in 1..2 :
            /\ IsMinOf(pdf.pages[i].min, PageSlice(i))
            /\ IsMaxOf(pdf.pages[i].max, PageSlice(i))
            /\ pdf.pages[i].mean = Mean(PageSlice(i))
            /\ pdf.pages[i].var = Variance(PageSlice(i))

\* The value range of the cover page is that of the slice too.
CoverRangeOverSlice ==
    pdf.ok =>
        \A i \in 1..2 :
            /\ IsMinOf(pdf.cover.ranges[i].min, PageSlice(i))
            /\ IsMaxOf(pdf.cover.ranges[i].max, PageSlice(i))

\* C11: every statistic a report prints for a channel, the min, max, mean
\* and std of the plot pages and the min-max range of the cover page, is
\* computed over the offset-applied and range-filtered array
\* (A + o)[x_min:x_max+1].
C11_StatsOverFilteredData == PlotStatsOverSlice /\ CoverRangeOverSlice

\* Both charts of the processed file are drawn.
BothDrawn == stored.success /\ Len(charts) = 2 /\ charts[1].ok /\ charts[2].ok

\* C12: the CSV export of a processed file has exactly one row per distance
\* index inside the channel's currently active X-range, and its value columns
\* hold the first-frame values with the currently applied Y-offsets added.
C12_CsvFollowsControls ==
    (csv.ok /\ BothDrawn) =>
        \A i \in 1..2 :
            /\ [k \in 1..Len(csv.rows) |-> csv.rows[k][1]]
                   = [k \in 1..(controls[i].hi - controls[i].lo + 1) |-> controls[i].lo + k - 1]
            /\ \A k \in 1..Len(csv.rows) :
                   csv.rows[k][i + 1]
                       = FirstFrame(stored, Channels(stored)[i]).data[csv.rows[k][1] + 1]
                             + controls[i].off

\* The extraction half of the scenario.
ScenarioExtracted ==
    Called =>
        /\ Succeeded
        /\ outcome.value.file_type = "TempStrain"
        /\ outcome.value.distance_points = 10
        /\ outcome.value.strain_first = [shape |-> <<10>>, data |-> [k \in 1..10 |-> k - 1]]
        /\ outcome.value.temp_first = [shape |-> <<10>>, data |-> [k \in 1..10 |-> k + 9]]

\* The temperature inputs of the scenario: offset +5 and range [2,6].
ScenarioControls ==
    stored.success /\ Len(controls) = 2 /\ controls[1] = [off |-> 5, lo |-> 2, hi |-> 6]

\* The temperature chart of the scenario shows indices 2..6 with 17..21.
ScenarioChart ==
    ScenarioControls =>
        /\ charts[1].ok
        /\ charts[1].x = <<2, 3, 4, 5, 6>>
        /\ charts[1].y = <<17, 18, 19, 20, 21>>

\* C13: the scenario's container is extracted as file_type='TempStrain' with
\* distance_points=10, strain_first=[0..9] and temp_first=[10..19]; with the
\* temperature offset +5 and the range [2,6] the exported rows are exactly
\* the indices 2..6 with the temperature values [17,18,19,20,21].
C13_Scenario ==
    /\ ScenarioExtracted
    /\ ScenarioControls =>
           /\ csv.ok
           /\ [k \in 1..Len(csv.rows) |-> csv.rows[k][1]] = <<2, 3, 4, 5, 6>>
           /\ [k \in 1..Len(csv.rows) |-> csv.rows[k][2]] = <<17, 18, 19, 20, 21>>

\* C14: for a file and a channel, the offset and the X-range the interactive
\* chart uses are the ones the PDF report generated from that view uses; a
\* report generated after the user changed an offset or a range shows the
\* changed values, not the defaults.
C14_ReportFollowsView ==
    (pdf.ok /\ BothDrawn) =>
        \A i \in 1..2 :
            /\ pdf.pages[i].off = controls[i].off
            /\ pdf.pages[i].lo = controls[i].lo
            /\ pdf.pages[i].hi = controls[i].hi
            /\ pdf.pages[i].x = charts[i].x
            /\ pdf.pages[i].y = charts[i].y

(***************************************************************************)
(* The combined view                                                       *)
(***************************************************************************)
\* The group a channel belongs to.
TypeOf(ch) == IF ch \in {"temp", "strain"} THEN "TempStrain" ELSE "BrillFrequency"

\* distance[lo:hi+1] for 0 <= lo: the indices lo..hi that exist.
IndexSlice(result, lo, hi) ==
    LET top == IF hi + 1 < result.distance_points THEN hi + 1 ELSE result.distance_points
    IN  [k \in 1..(top - lo) |-> lo + k - 1]

\* The drawn combined charts.
DrawnFigures == {i \in 1..Len(overlay.figures) : overlay.figures[i].ok}

\* The files whose trace on some chart differs between the two states of a step.
TraceChanged ==
    {n \in DOMAIN processed_files :
        \E i \in DrawnFigures :
            /\ i \in DrawnFigures'
            /\ n \in DOMAIN overlay.figures[i].traces
            /\ overlay'.figures[i].traces[n] # overlay.figures[i].traces[n]}

\* C15 as stated: each file's trace has that file's own independent Y-offset,
\* so a change of an offset changes the traces of one file at most.
C15_AsStated ==
    [][(last'.op = "set_compare" /\ last'.key \in {OffsetKey(ch) : ch \in {"temp", "strain", "freq", "amp"}})
           => Cardinality(TraceChanged) <= 1]_vars

\* C15: in the combined charts every file's trace of a channel is the file's
\* first frame plus the one Y-offset of that channel's chart, filtered by the
\* one X-range of the channel's group: the offset and the range are common
\* to all files of the chart.
C15_SharedOffsetCommonRange ==
    show_compare_all =>
        \A i \in DrawnFigures :
            LET fig == overlay.figures[i]
                ch  == fig.channel
            IN  /\ fig.off = compare[OffsetKey(ch)]
                /\ fig.lo = compare[XMinKey(TypeOf(ch))]
                /\ fig.hi = compare[XMaxKey(TypeOf(ch))]
                /\ DOMAIN fig.traces = OfType(processed_files, TypeOf(ch))
                /\ \A n \in DOMAIN fig.traces :
                       /\ fig.traces[n].y
                              = OffsetSlice(processed_files[n], ch, fig.off, fig.lo, fig.hi)
                       /\ fig.traces[n].x = IndexSlice(processed_files[n], fig.lo, fig.hi)

\* A combined chart of two files or more with an offset and a narrowed range.
C15_Witness ==
    /\ show_compare_all
    /\ \E i \in DrawnFigures :
           /\ overlay.figures[i].off # 0
           /\ overlay.figures[i].lo > 0
           /\ Cardinality(DOMAIN overlay.figures[i].traces) >= 2

(***************************************************************************)
(* Authentication                                                          *)
(***************************************************************************)
\* The step is an authenticate call.
AuthCall == last'.op = "authenticate"

\* The last MAX_LOGIN_ATTEMPTS events are failed credential checks: no
\* success, and no lock in force, lifted or reset, in between.
FailedInARow(events) ==
    Len(events) = MAX_LOGIN_ATTEMPTS /\ \A k \in 1..Len(events) : events[k] = "invalid"

\* C19: the third consecutive failed authenticate call (unknown username or
\* wrong password, no successful login in between) sets locked_until to 15
\* minutes in the future and login_attempts to 0; nothing else sets the
\* lock, so fewer than 3 consecutive failures never do; a successful login
\* leaves login_attempts at 0.
C19_Lockout ==
    [][/\ (~locked_until'.none /\ locked_until' # locked_until)
            => /\ AuthCall /\ login_page'.msg = "invalid"
               /\ FailedInARow(log')
               /\ locked_until' = Some(now + LockMinutes)
               /\ login_attempts' = 0
       /\ (AuthCall /\ login_page'.msg = "invalid" /\ FailedInARow(log'))
            => /\ locked_until' = Some(now + LockMinutes)
               /\ login_attempts' = 0
       /\ (AuthCall /\ login_page'.msg = "invalid" /\ ~FailedInARow(log'))
            => /\ locked_until'.none
               /\ login_attempts' > 0
       /\ (AuthCall /\ login_page'.msg = "welcome")
            => /\ login_attempts' = 0
               /\ locked_until'.none]_vars

\* The account has just been locked by the third failure in a row.
C19_Witness ==
    /\ last.op = "authenticate"
    /\ FailedInARow(log)
    /\ locked_until = Some(now + LockMinutes)
    /\ login_attempts = 0

\* The call of the step is made with the credentials of CREDENTIALS.
RightCredentials == last'.username = "engineer" /\ last'.password = "tunnel123"

\* C20: while the account is locked (the clock before locked_until) an
\* authenticate call fails for every username and password, the right ones
\* included, and leaves authenticated, user_info, login_time, login_attempts
\* and locked_until as they were; a call at or after locked_until clears the
\* lock, starts login_attempts from 0 and judges the credentials as usual.
C20_LockedThenExpired ==
    [][AuthCall =>
          /\ (~locked_until.none /\ now < locked_until.value)
                => /\ ~login_page'.ok
                   /\ UNCHANGED <<authenticated, user_info, login_time, login_attempts,
                                  locked_until>>
          /\ (~locked_until.none /\ now >= locked_until.value)
                => IF RightCredentials
                   THEN /\ login_page'.ok /\ authenticated'
                        /\ login_time' = Some(now)
                        /\ locked_until'.none /\ login_attempts' = 0
                   ELSE /\ ~login_page'.ok /\ ~authenticated'
                        /\ locked_until'.none /\ login_attempts' = 1]_vars

\* A login refused under the lock, then accepted once the lock had run out.
C20_Witness ==
    /\ authenticated
    /\ log = <<"locked", "unlock", "welcome">>
    /\ locked_until.none

(***************************************************************************)
(* The session of several files                                            *)
(***************************************************************************)
\* The names in a sequence of names.
NamesIn(s) == {s[k] : k \in 1..Len(s)}

\* After Process All every uploaded file is either processed or was handed
\* to the extraction: a failure stops the batch for no later file.
BatchIsolation ==
    last.op = "process_all" =>
        \A n \in Uploaded : n \in DOMAIN processed_files \/ n \in NamesIn(batch)

\* After Process All every file the extraction was called on has an outcome
\* of its own on record: its result, or a failure shown under its name.
BatchOutcomesRecorded ==
    last.op = "process_all" =>
        \A n \in NamesIn(batch) :
            \/ n \in DOMAIN processed_files
            \/ \E k \in 1..Len(shown) : shown[k].level = "error" /\ shown[k].name = n

\* C16: during Process All a failed extraction of one uploaded file never
\* prevents the extraction attempt of a later file of the batch, and after
\* the batch every file attempted has its own recorded outcome, a success
\* result or a failure, attributable to that file.
C16_BatchFailureIsolation == BatchIsolation /\ BatchOutcomesRecorded

\* C17: an entry of processed_files stays, under its filename, through every
\* interaction of the session, logout and login included, except the Remove
\* button of that file, the removal of an upload slot holding that file, and
\* Clear All.
C17_ResultLifecycle ==
    [][\A n \in DOMAIN processed_files :
           n \notin DOMAIN processed_files'
               => \/ last'.op = "clear_all"
                  \/ last'.op \in {"remove", "remove_slot"} /\ n \in last'.names]_vars

\* A processed file is still there after a logout and the login that follows.
C17_Witness ==
    /\ authenticated /\ last.op = "authenticate"
    /\ "a.h5" \in DOMAIN processed_files

\* C18: a two-file comparison report has an additional differencing page
\* exactly when both files have the same distance_points, and none when the
\* counts differ.
C18_DifferencingPage ==
    (pdf.ok /\ last.op = "comparison") =>
        ((\E k \in 1..Len(pdf.pages) : pdf.pages[k].kind = "difference")
            <=> last.points[1] = last.points[2])

\* No comparison report has a differencing page, whatever the counts.
NoDifferencingPage ==
    (pdf.ok /\ last.op = "comparison") =>
        \A k \in 1..Len(pdf.pages) : pdf.pages[k].kind \in {"cover", "temp", "strain"}

\* C21: once a lock has been set, nothing an unauthenticated user can do on
\* the login page gets the session authenticated before the locked_until of
\* that lock: a login that follows a lock is not earlier than its end.
C21_LockoutNotBypassed ==
    (authenticated /\ ~lock_set.none) => login_time.value >= lock_set.value

\* The runs of the dashboard: drawn again, or with Logout pressed, or ended
\* by the session timeout.
DashboardRun == last'.op \in {"dashboard", "logout", "timeout"}

\* C22: a run of the dashboard of a session older than 30 minutes leaves
\* authenticated False and user_info and login_time cleared, and draws the
\* login page, nothing of the dashboard; a session of at most 30 minutes
\* loses authenticated only through Logout; login_time changes only when a
\* login succeeds (to the time of that login) or when the session ends.
C22_SessionTimeout ==
    [][/\ (authenticated /\ DashboardRun /\ now - login_time.value > SessionTimeoutMinutes)
            => /\ ~authenticated' /\ user_info' = None /\ login_time' = None
               /\ last'.op = "timeout" /\ page' = "login" /\ overlay' = NoOverlay
       /\ (authenticated /\ now - login_time.value <= SessionTimeoutMinutes
              /\ ~authenticated')
            => last'.op = "logout"
       /\ (login_time' # login_time)
            => \/ AuthCall /\ ~authenticated /\ authenticated' /\ login_time' = Some(now)
               \/ authenticated /\ ~authenticated' /\ login_time' = None
      ]_vars

\* A session that the timeout has ended.
C22_Witness ==
    /\ last.op = "timeout" /\ ~authenticated /\ login_time = None
    /\ now > SessionTimeoutMinutes

\* C23: every run of main draws the dashboard only for a session whose
\* authenticated is True and the login page only for one whose authenticated
\* is False; and authenticated turns True only in an authenticate call with
\* a username of CREDENTIALS and a password whose hash matches.
C23_AccessControl ==
    /\ [](page = "dashboard" <=> authenticated)
    /\ [][(~authenticated /\ authenticated')
            => /\ AuthCall
               /\ last'.username \in DOMAIN CREDENTIALS
               /\ verify_password(last'.password,
                                  CREDENTIALS[last'.username].password_hash)
         ]_vars

\* A login that was accepted, after one that was refused.
C23_Witness ==
    /\ authenticated /\ page = "dashboard" /\ last.op = "authenticate"
    /\ "invalid" \in {log[k] : k \in DOMAIN log}

\* C29: between authenticate calls login_attempts is 0, 1 or 2, never
\* MAX_LOGIN_ATTEMPTS, and it is 0 in the state an authenticate call leaves
\* when it has just set locked_until.
C29_BoundedFailureCounter ==
    /\ login_attempts \in 0..(MAX_LOGIN_ATTEMPTS - 1)
    /\ (last.op = "authenticate" /\ login_page.msg = "invalid" /\ ~locked_until.none)
         => login_attempts = 0

\* The call that has just set the lock.
C29_Witness ==
    /\ last.op = "authenticate" /\ login_page.msg = "invalid"
    /\ locked_until = Some(now + LockMinutes) /\ login_attempts = 0

\* C30: a session with authenticated True holds a user_info with username,
\* name and role and a login_time; one with authenticated False holds None
\* for both; so get_current_user gives None exactly when not authenticated.
C30_AuthenticatedStateConsistent ==
    /\ authenticated => /\ ~("none" \in DOMAIN user_info)
                        /\ DOMAIN user_info = {"username", "name", "role"}
                        /\ ~login_time.none
    /\ ~authenticated => user_info = None /\ login_time = None
    /\ (get_current_user(AuthState) = None) <=> ~authenticated

\* Logged out after a login.
C30_Witness ==
    /\ ~authenticated /\ last.op \in {"logout", "timeout"}
    /\ "welcome" \in {log[k] : k \in DOMAIN log}
    /\ get_current_user(AuthState) = None

\* C25: in every success result the two first-frame slices are 1-D arrays of
\* length distance_points, and so is distance, so the mask built from
\* distance can index either first-frame array.
C25_ShapeConsistency ==
    Succeeded =>
        LET r == outcome.value
        IN  /\ r.distance.shape = <<r.distance_points>>
            /\ \A k \in 1..2 :
                  /\ FirstFrame(r, Channels(r)[k]).shape = <<r.distance_points>>
                  /\ CanMask(FirstFrame(r, Channels(r)[k]),
                             RangeMask(r.distance, 0, r.distance_points - 1))

\* C26: every entry of processed_files is a result with success=True and a
\* file_type of TempStrain or BrillFrequency, and a Process whose extraction
\* fails leaves processed_files as it was: no entry added, none replaced.
C26_OnlySuccessesStored ==
    /\ [](\A n \in DOMAIN processed_files :
             /\ processed_files[n].success
             /\ processed_files[n].file_type \in {"TempStrain", "BrillFrequency"})
    /\ [][(last'.op = "process" /\ shown' # <<>>) => processed_files' = processed_files]_vars

\* A failed Process of a file whose name already has a stored result, beside
\* a second stored result.
C26_Witness ==
    /\ last.op = "process" /\ shown # <<>>
    /\ shown[1].name \in DOMAIN processed_files
    /\ Cardinality(DOMAIN processed_files) >= 2

\* The combined view is what the run of the page draws.
CompareViewRendered ==
    authenticated /\ show_compare_all /\ DOMAIN processed_files # {}

\* C27: whenever the combined view is rendered, processed_files holds at
\* least two results, whatever processing, removal, Clear All, Back, logout
\* and login came before.
C27_CompareViewPrecondition ==
    CompareViewRendered => Cardinality(DOMAIN processed_files) >= 2

\* The combined view drawn again right after a new login.
C27_Witness ==
    /\ CompareViewRendered /\ last.op = "authenticate"
    /\ overlay.figures # <<>>

\* C28: for a processed file of at least one distance point, the range
\* inputs of every channel the page reaches hold 0 <= x_min < x_max <=
\* distance_points - 1 in every state the user can bring them to, so the
\* X-Max input's min_value x_min + 1 never exceeds its max_value.
C28_XRangeBounds ==
    (stored.success /\ stored.distance_points >= 1) =>
        \A i \in 1..Len(charts) :
            /\ 0 <= controls[i].lo /\ controls[i].lo < controls[i].hi
            /\ controls[i].hi <= stored.distance_points - 1
            /\ controls[i].lo + 1 <= stored.distance_points - 1

\* The two channels of a processed file.
ChannelSet(name) ==
    {ChannelsOf(processed_files[name].file_type)[k] : k \in 1..2}

\* C24: a press of a channel's Reset button leaves that channel's offset at
\* 0 and its range at 0..distance_points-1, its chart is drawn and shows the
\* first frame as stored against the whole distance axis, and the offset and
\* range of every other channel of the file and of every channel of every
\* other file are what they were.
C24_ResetChannel ==
    [][last'.op = "reset" =>
         LET n == last'.name
             c == last'.channel
             r == processed_files[n]
         IN  /\ ChannelControl(widgets', r, c, n) = DefaultControl(r)
             /\ \E k \in 1..Len(charts') :
                   /\ charts'[k].name = n /\ charts'[k].chart.channel = c
                   /\ charts'[k].chart.ok
                   /\ charts'[k].chart.x = r.distance.data
                   /\ charts'[k].chart.y = FirstFrame(r, c).data
             /\ \A n2 \in DOMAIN processed_files : \A c2 \in ChannelSet(n2) :
                   <<n2, c2>> # <<n, c>> =>
                       ChannelControl(widgets', processed_files[n2], c2, n2)
                           = ChannelControl(widgets, processed_files[n2], c2, n2)
      ]_vars

\* Temperature of a.h5 has been reset while the strain of the same file and
\* the frequency of the other file hold an offset.
C24_Witness ==
    /\ last.op = "reset" /\ last.name = "a.h5" /\ last.channel = "temp"
    /\ Get(widgets, ResetKey("temp", "a.h5"), 0) = 1
    /\ ChannelControl(widgets, processed_files["a.h5"], "strain", "a.h5").off = 5
    /\ ChannelControl(widgets, processed_files["c.h5"], "freq", "c.h5").off = 5

=============================================================================
